---- MODULE Spec2Model ----
(***************************************************************************)
(* A model of the Game of Life engine of src/lib.rs: the Universe struct   *)
(* (width, height, cells), its constructor, tick, the two resizes,         *)
(* set_cells and the Display implementation behind render.                 *)
(*                                                                         *)
(* Arithmetic is u32. An overflowing u32 operation panics when the crate   *)
(* is built with overflow checks (the debug profile) and wraps modulo 2^32 *)
(* otherwise (the release profile); the model carries the build's choice   *)
(* in overflow_checks and follows both. A panic ends the run of the        *)
(* universe: status becomes "panicked" and no operation is enabled.        *)
(*                                                                         *)
(* TLC's integers end at 2^31 - 1, so a u32 product or index is held as    *)
(* its two 16-bit halves <<high, low>> and the sides given to the          *)
(* operations stay below 2^31.                                             *)
(***************************************************************************)
EXTENDS Integers, Sequences, FiniteSets, TLC

\* ------------------------------------------------------------ constants

Dead == 0
Alive == 1
MinSide == 2
MaxSide == 1024

\* --------------------------------------------------------------- bounds

\* Largest side the explored calls pass to new, set_width and set_height
\* (besides BigSide), and the range of the coordinates given to set_cells.
MaxDim == 3
\* A side whose product with 3 leaves the u32 range: 3 * BigSide = 2^32 + 2.
BigSide == 1431655766
\* Largest cell sequence the explored calls allocate.
MaxCells == 9
\* Longest coordinate list given to set_cells.
MaxPairs == 1
\* Largest small side given to new in SpecNew (besides MaxSide - 1, MaxSide, MaxSide + 1).
MaxNewSmall == 12
\* Largest side and largest number of stamped cells in SpecTorus.
MaxTorusDim == 4
MaxStamp == 1

VARIABLES width, height, cells, status, overflow_checks, op, ret, old_cells

vars == <<width, height, cells, status, overflow_checks, op, ret, old_cells>>

\* ------------------------------------------------------------ results

Ok(v) == [ok |-> TRUE, val |-> v]
Panic == [ok |-> FALSE, val |-> <<>>]

Call(name, args) == [name |-> name, args |-> args]

\* ---------------------------------------------------------- u32 arithmetic

Half == 256 * 256

\* the halves of a value below 2^31, and the value of halves below 2^31
Wide(n) == <<n \div Half, n % Half>>
Fits(x) == x[1] < 32768
Narrow(x) == x[1] * Half + x[2]

\* the exact product of two 16-bit values, by their bytes
mul16(a, b) ==
  LET a1 == a \div 256
      a0 == a % 256
      b1 == b \div 256
      b0 == b % 256
      mid == a1 * b0 + a0 * b1
      low == a0 * b0 + (mid % 256) * 256
  IN  <<a1 * b1 + (mid \div 256) + (low \div Half), low % Half>>

\* a * b in u32: the product modulo 2^32 and whether the exact product left u32
\* (a product of two values below 2^15 is below 2^30 and taken directly)
mul_u32_wide(x, y, p, c1, c2) ==
  [val |-> <<(p[1] + c1[2] + c2[2]) % Half, p[2]>>,
   overflow |-> (x[1] # 0 /\ y[1] # 0) \/ c1[1] # 0 \/ c2[1] # 0
                  \/ p[1] + c1[2] + c2[2] >= Half]

mul_u32(a, b) ==
  IF a < 32768 /\ b < 32768
  THEN [val |-> Wide(a * b), overflow |-> FALSE]
  ELSE mul_u32_wide(Wide(a), Wide(b), mul16(a % Half, b % Half),
                    mul16(a \div Half, b % Half), mul16(a % Half, b \div Half))

\* x + n in u32, for halves x and n below 2^31
add_u32(x, n) ==
  LET y == Wide(n)
      lo == x[2] + y[2]
      hi == x[1] + y[1] + (lo \div Half)
  IN  [val |-> <<hi % Half, lo % Half>>, overflow |-> hi >= Half]

\* ------------------------------------------------------- pure functions

\* (row * self.width + col) as usize: the index and whether the arithmetic overflowed
\* (with the three values below 2^15 the sum is below 2^31 and taken directly)
get_index_wide(p, col) ==
  [val |-> add_u32(p.val, col).val, overflow |-> p.overflow \/ add_u32(p.val, col).overflow]

get_index(w, row, col) ==
  IF w < 32768 /\ row < 32768 /\ col < 32768
  THEN [val |-> Wide(row * w + col), overflow |-> FALSE]
  ELSE get_index_wide(mul_u32(row, w), col)

\* self.cells[idx] is in bounds
in_bounds(idx, cs) == Fits(idx) /\ Narrow(idx) < Len(cs)

\* [n - 1, 0, 1]: the offsets -1, 0, +1 taken modulo n
deltas_nowrap(n) == <<n, 0, 1>>

deltas(n) == <<n - 1, 0, 1>>

\* (i + delta) % n for i < n and delta <= n: the sum is below 2n and below 2^32,
\* so the addition cannot overflow u32 and the remainder is one subtraction
add_mod(i, delta, n) == IF i >= n - delta THEN i - (n - delta) ELSE i + delta

\* the delta_row and delta_col of the k-th of the nine passes of the nested loops
delta_row_at(h, k) == deltas(h)[((k - 1) \div 3) + 1]
delta_col_at(w, k) == deltas(w)[((k - 1) % 3) + 1]

\* count += self.cells[idx] as u8, or the panic of the index
lnc_add(cs, idx, chk, count) ==
  IF chk /\ idx.overflow THEN Panic
  ELSE IF ~in_bounds(idx.val, cs) THEN Panic
  ELSE Ok(count + cs[Narrow(idx.val) + 1])

\* the nine passes of the nested loops from the k-th on (the result of a pass is
\* bound once, as the element of a singleton)
RECURSIVE lnc_loop(_, _, _, _, _, _, _, _)
lnc_loop(cs, w, h, row, col, chk, k, count) ==
  IF k > 9 THEN Ok(count)
  ELSE IF delta_row_at(h, k) = 0 /\ delta_col_at(w, k) = 0
  THEN lnc_loop(cs, w, h, row, col, chk, k + 1, count)
  ELSE CHOOSE out \in
         {IF r.ok THEN lnc_loop(cs, w, h, row, col, chk, k + 1, r.val) ELSE Panic :
            r \in {lnc_add(cs, get_index(w, add_mod(row, delta_row_at(h, k), h),
                                            add_mod(col, delta_col_at(w, k), w)),
                           chk, count)}} : TRUE

\* self.height - 1 underflows and % self.height divides by zero on an empty side
live_neighbor_count(cs, w, h, row, col, chk) ==
  IF w = 0 \/ h = 0 THEN Panic
  ELSE lnc_loop(cs, w, h, row, col, chk, 1, 0)

\* the match of tick, its arms in order
next_cell_lenient(cell, x) ==
  IF cell = Alive /\ x < 2 THEN Dead
  ELSE IF cell = Alive /\ (x = 2 \/ x = 3) THEN Alive
  ELSE IF cell = Alive /\ x > 4 THEN Dead
  ELSE IF cell = Dead /\ x = 3 THEN Alive
  ELSE cell

next_cell_only_two(cell, x) ==
  IF cell = Alive /\ x < 2 THEN Dead
  ELSE IF cell = Alive /\ x = 2 THEN Alive
  ELSE IF cell = Alive /\ x > 2 THEN Dead
  ELSE IF cell = Dead /\ x = 3 THEN Alive
  ELSE cell

next_cell(cell, x) ==
  IF cell = Alive /\ x < 2 THEN Dead
  ELSE IF cell = Alive /\ (x = 2 \/ x = 3) THEN Alive
  ELSE IF cell = Alive /\ x > 3 THEN Dead
  ELSE IF cell = Dead /\ x = 3 THEN Alive
  ELSE cell

\* the buffer tick reads the current generation from: self.cells, not next
tick_source_next(cur, next) == next

tick_source(cur, next) == cur

\* one pass of the inner loop of tick at (row, col): the cells read and next written
tick_step(src, idx, live_neighbors, chk, next) ==
  IF chk /\ idx.overflow THEN Panic
  ELSE IF ~in_bounds(idx.val, src) THEN Panic
  ELSE IF ~live_neighbors.ok THEN Panic
  ELSE Ok([next EXCEPT ![Narrow(idx.val) + 1] =
             next_cell(src[Narrow(idx.val) + 1], live_neighbors.val)])

\* the two loops of tick, from iteration (row, col) on
RECURSIVE tick_loop(_, _, _, _, _, _, _)
tick_loop(cur, w, h, chk, row, col, next) ==
  IF row >= h THEN Ok(next)
  ELSE IF col >= w THEN tick_loop(cur, w, h, chk, row + 1, 0, next)
  ELSE CHOOSE out \in
         {IF r.ok THEN tick_loop(cur, w, h, chk, row, col + 1, r.val) ELSE Panic :
            r \in {tick_step(tick_source(cur, next), get_index(w, row, col),
                             live_neighbor_count(tick_source(cur, next), w, h, row, col, chk),
                             chk, next)}} : TRUE

\* let mut next = self.cells.clone() and the loops; with width 0 no row has a column
tick_cells(cs, w, h, chk) == IF w = 0 THEN Ok(cs) ELSE tick_loop(cs, w, h, chk, 0, 0, cs)

\* the seed of new: i % 2 == 0 || i % 7 == 0
seed_both(i) == IF i % 2 = 0 /\ i % 7 = 0 THEN Alive ELSE Dead

seed(i) == IF i % 2 = 0 \/ i % 7 = 0 THEN Alive ELSE Dead

\* the two panics of new
new_rejects_strict(w, h) == w < MinSide \/ h < MinSide \/ w >= MaxSide \/ h >= MaxSide

new_rejects(w, h) == w < MinSide \/ h < MinSide \/ w > MaxSide \/ h > MaxSide

\* self.cells[idx] = Cell::Alive, or the panic of the index
set_cell(cs, idx, chk) ==
  IF chk /\ idx.overflow THEN [ok |-> FALSE, val |-> cs]
  ELSE IF ~in_bounds(idx.val, cs) THEN [ok |-> FALSE, val |-> cs]
  ELSE Ok([cs EXCEPT ![Narrow(idx.val) + 1] = Alive])

\* the loop of set_cells over its coordinate list, from the k-th pair on
RECURSIVE set_cells_loop(_, _, _, _, _)
set_cells_loop(cs, w, chk, pairs, k) ==
  IF k > Len(pairs) THEN Ok(cs)
  ELSE CHOOSE out \in
         {IF r.ok THEN set_cells_loop(r.val, w, chk, pairs, k + 1) ELSE r :
            r \in {set_cell(cs, get_index(w, pairs[k][1], pairs[k][2]), chk)}} : TRUE

\* the characters written by Display
WhiteSquare == "U+25FB"
BlackSquare == "U+25FC"
LineBreak == "LF"

symbol(cell) == IF cell = Dead THEN WhiteSquare ELSE BlackSquare

\* the chunks of self.cells, each written as its symbols and a line break
RECURSIVE fmt_lines(_, _, _)
fmt_lines(cs, w, start) ==
  IF start > Len(cs) THEN <<>>
  ELSE
    LET last == IF start + w - 1 <= Len(cs) THEN start + w - 1 ELSE Len(cs)
    IN  [j \in 1..(last - start + 1) |-> symbol(cs[start + j - 1])]
          \o <<LineBreak>> \o fmt_lines(cs, w, last + 1)

\* chunks(0) panics
fmt(cs, w) == IF w = 0 THEN Panic ELSE Ok(fmt_lines(cs, w, 1))

\* ------------------------------------------------------------- actions

AllDead(n) == [i \in 1..n |-> Dead]

new(w, h) ==
  /\ status = "none"
  /\ op' = Call("new", <<w, h>>)
  /\ ret' = <<>>
  /\ UNCHANGED <<overflow_checks, old_cells>>
  /\ IF new_rejects(w, h)
     THEN /\ status' = "panicked"
          /\ UNCHANGED <<width, height, cells>>
     ELSE /\ status' = "ready"
          /\ width' = w
          /\ height' = h
          /\ cells' = [i \in 1..Narrow(mul_u32(w, h).val) |-> seed(i - 1)]

tick ==
  /\ status = "ready"
  /\ op' = Call("tick", <<>>)
  /\ ret' = <<>>
  /\ old_cells' = cells
  /\ UNCHANGED <<width, height, overflow_checks>>
  /\ \E r \in {tick_cells(cells, width, height, overflow_checks)} :
       IF r.ok
       THEN /\ cells' = r.val
            /\ status' = "ready"
       ELSE /\ cells' = cells
            /\ status' = "panicked"

set_width(w) ==
  /\ status = "ready"
  /\ Fits(mul_u32(w, height).val)
  /\ Narrow(mul_u32(w, height).val) <= MaxCells
  /\ op' = Call("set_width", <<w>>)
  /\ ret' = <<>>
  /\ old_cells' = <<>>
  /\ width' = w
  /\ UNCHANGED <<height, overflow_checks>>
  /\ IF overflow_checks /\ mul_u32(w, height).overflow
     THEN /\ status' = "panicked"
          /\ cells' = cells
     ELSE /\ status' = "ready"
          /\ cells' = AllDead(Narrow(mul_u32(w, height).val))

set_height(h) ==
  /\ status = "ready"
  /\ Fits(mul_u32(width, h).val)
  /\ Narrow(mul_u32(width, h).val) <= MaxCells
  /\ op' = Call("set_height", <<h>>)
  /\ ret' = <<>>
  /\ old_cells' = <<>>
  /\ height' = h
  /\ UNCHANGED <<width, overflow_checks>>
  /\ IF overflow_checks /\ mul_u32(width, h).overflow
     THEN /\ status' = "panicked"
          /\ cells' = cells
     ELSE /\ status' = "ready"
          /\ cells' = AllDead(Narrow(mul_u32(width, h).val))

set_cells(pairs) ==
  /\ status = "ready"
  /\ op' = Call("set_cells", <<>>)
  /\ ret' = <<>>
  /\ old_cells' = <<>>
  /\ UNCHANGED <<width, height, overflow_checks>>
  /\ \E r \in {set_cells_loop(cells, width, overflow_checks, pairs, 1)} :
       /\ cells' = r.val
       /\ status' = IF r.ok THEN "ready" ELSE "panicked"

render ==
  /\ status = "ready"
  /\ op' = Call("render", <<>>)
  /\ old_cells' = <<>>
  /\ UNCHANGED <<width, height, cells, overflow_checks>>
  /\ \E r \in {fmt(cells, width)} :
       /\ ret' = r.val
       /\ status' = IF r.ok THEN "ready" ELSE "panicked"

\* ------------------------------------------------------ specifications

DimArgs == (0..MaxDim) \cup {BigSide}
Coords == (0..(MaxDim - 1)) \X (0..(MaxDim - 1))
PairLists == UNION {[1..n -> Coords] : n \in 0..MaxPairs}

Init ==
  /\ status = "none"
  /\ width = 0
  /\ height = 0
  /\ cells = <<>>
  /\ overflow_checks \in BOOLEAN
  /\ op = Call("none", <<>>)
  /\ ret = <<>>
  /\ old_cells = <<>>

Construct == \E w \in 0..MaxDim, h \in 0..MaxDim : w * h <= MaxCells /\ new(w, h)
Advance == tick
SetWidth == \E w \in DimArgs : set_width(w)
SetHeight == \E h \in DimArgs : set_height(h)
SetCells == \E pairs \in PairLists : set_cells(pairs)
Render == render

Next == Construct \/ Advance \/ SetWidth \/ SetHeight \/ SetCells \/ Render

Spec == Init /\ [][Next]_vars

\* new alone, with sides up to and beyond the two limits
NewArgs == (0..MaxNewSmall) \cup {MaxSide - 1, MaxSide, MaxSide + 1, BigSide}

ConstructAny == \E w \in NewArgs, h \in NewArgs : new(w, h)

NextNew == ConstructAny

SpecNew == Init /\ [][NextNew]_vars

\* tick alone, on grids of sides 2..MaxTorusDim that new, set_width, set_height and
\* one set_cells produce: up to MaxStamp cells, the four cells of a block, or three
\* cells in a row
TorusCoords(w, h) == (0..(h - 1)) \X (0..(w - 1))

BlockList(w, h, r, c) ==
  <<<<r, c>>, <<r, (c + 1) % w>>, <<(r + 1) % h, c>>, <<(r + 1) % h, (c + 1) % w>>>>

RowList(w, h, r, c) == <<<<r, c>>, <<r, (c + 1) % w>>, <<r, (c + 2) % w>>>>

StampLists(w, h) ==
  UNION {[1..n -> TorusCoords(w, h)] : n \in 0..MaxStamp}
    \cup {BlockList(w, h, rc[1], rc[2]) : rc \in TorusCoords(w, h)}
    \cup {RowList(w, h, rc[1], rc[2]) : rc \in TorusCoords(w, h)}

InitTorus ==
  /\ status = "ready"
  /\ overflow_checks \in BOOLEAN
  /\ width \in 2..MaxTorusDim
  /\ height \in 2..MaxTorusDim
  /\ cells \in {set_cells_loop(AllDead(width * height), width, overflow_checks, pairs, 1).val :
                  pairs \in StampLists(width, height)}
  /\ op = Call("set_cells", <<>>)
  /\ ret = <<>>
  /\ old_cells = <<>>

NextTorus == Advance

SpecTorus == InitTorus /\ [][NextTorus]_vars

\* ---------------------------------------------------------------- claims

\* n is the exact product w * h (n is a length, below 2^31)
IsProduct(n, w, h) ==
  IF w = 0 \/ h = 0 THEN n = 0 ELSE h <= 2147483647 \div w /\ n = w * h

\* the cell at (r, c) of a row-major sequence of rows of w cells
At(cs, w, r, c) == cs[r * w + c + 1]

Offsets8 == {o \in {-1, 0, 1} \X {-1, 0, 1} : o # <<0, 0>>}

\* the cell reached from (r, c) by the offset o, wrapped on both axes
Wrapped(w, h, r, c, o) == <<(r + o[1] + h) % h, (c + o[2] + w) % w>>

\* the number of offsets that reach an Alive cell
OffsetCount(cs, w, h, r, c) ==
  Cardinality({o \in Offsets8 :
                 At(cs, w, Wrapped(w, h, r, c, o)[1], Wrapped(w, h, r, c, o)[2]) = Alive})

\* the number of Alive cells in the set of cells the offsets reach
NeighbourSetCount(cs, w, h, r, c) ==
  Cardinality({rc \in {Wrapped(w, h, r, c, o) : o \in Offsets8} :
                 At(cs, w, rc[1], rc[2]) = Alive})

\* the rule of the Game of Life
LifeRule(cell, n) ==
  IF cell = Alive
  THEN (IF n = 2 \/ n = 3 THEN Alive ELSE Dead)
  ELSE (IF n = 3 THEN Alive ELSE Dead)

InRange(n) == MinSide <= n /\ n <= MaxSide

\* C1: for sides in 2..1024, new returns a grid of those sides with width * height
\* cells, the cell at index i Alive exactly when 2 or 7 divides i, Dead otherwise.
C1_ConstructSeeds ==
  (op.name = "new" /\ InRange(op.args[1]) /\ InRange(op.args[2])) =>
    /\ status = "ready"
    /\ width = op.args[1]
    /\ height = op.args[2]
    /\ Len(cells) = width * height
    /\ \A cs \in {SubSeq(cells, 1, Len(cells))} :
         \A i \in 0..(Len(cs) - 1) :
           /\ cs[i + 1] \in {Dead, Alive}
           /\ cs[i + 1] = Alive <=> (i % 2 = 0 \/ i % 7 = 0)

C1_Witness ==
  /\ op = Call("new", <<MaxSide, 3>>)
  /\ status = "ready"
  /\ Len(cells) = 3072
  /\ cells[7 + 1] = Alive
  /\ cells[9 + 1] = Dead
  /\ cells[3059 + 1] = Alive
  /\ cells[3071 + 1] = Dead

\* C2: new panics, leaving no grid, exactly when a side is below 2 or above 1024;
\* every other pair of sides is accepted.
C2_ConstructRejects ==
  op.name = "new" =>
    /\ status \in {"ready", "panicked"}
    /\ status = "panicked" <=>
         (op.args[1] < 2 \/ op.args[2] < 2 \/ op.args[1] > 1024 \/ op.args[2] > 1024)
    /\ status = "panicked" => (cells = <<>> /\ width = 0 /\ height = 0)
    /\ status = "ready" => (width = op.args[1] /\ height = op.args[2])

C2_Witness ==
  /\ op = Call("new", <<1024, 1025>>)
  /\ status = "panicked"
  /\ cells = <<>>

\* C3: a tick that completes leaves width and height alone and makes every cell the
\* Game of Life rule of that cell's state and live-neighbour count in the grid before
\* the tick.
C3_TickAppliesRule ==
  [][(op'.name = "tick" /\ status' = "ready") =>
       /\ width' = width
       /\ height' = height
       /\ Len(cells') = Len(cells)
       /\ \A i \in 0..(Len(cells) - 1) :
            \A n \in {live_neighbor_count(cells, width, height, i \div width, i % width,
                                          overflow_checks)} :
              n.ok /\ cells'[i + 1] = LifeRule(cells[i + 1], n.val)]_vars

C3_Witness ==
  /\ op.name = "tick"
  /\ status = "ready"
  /\ width = 4
  /\ height = 4
  /\ \E i, j, k, l \in 1..Len(cells) :
       /\ old_cells[i] = Dead /\ cells[i] = Alive
       /\ old_cells[j] = Alive /\ cells[j] = Dead
       /\ old_cells[k] = Alive /\ cells[k] = Alive
       /\ old_cells[l] = Dead /\ cells[l] = Dead

\* C4: in every state after a successful new, the length of the cell sequence is
\* width * height.
C4_LengthIsProduct == status = "ready" => IsProduct(Len(cells), width, height)

\* C5: set_width with any argument leaves height alone, sets width to the argument and
\* leaves exactly width * height cells, all Dead; set_height symmetrically.
C5_ResizeAllDead ==
  [][/\ op'.name = "set_width" =>
          /\ status' = "ready"
          /\ width' = op'.args[1]
          /\ height' = height
          /\ IsProduct(Len(cells'), op'.args[1], height)
          /\ \A i \in 1..Len(cells') : cells'[i] = Dead
     /\ op'.name = "set_height" =>
          /\ status' = "ready"
          /\ height' = op'.args[1]
          /\ width' = width
          /\ IsProduct(Len(cells'), width, op'.args[1])
          /\ \A i \in 1..Len(cells') : cells'[i] = Dead]_vars

\* the Alive cells of cs are exactly the four cells of a 2x2 block
IsBlock(cs, w, h) ==
  /\ Len(cs) = w * h
  /\ \E r \in 0..(h - 1), c \in 0..(w - 1) :
       \A i \in 0..(Len(cs) - 1) :
         cs[i + 1] = Alive <=>
           <<i \div w, i % w>> \in
             {<<r, c>>, <<r, (c + 1) % w>>, <<(r + 1) % h, c>>, <<(r + 1) % h, (c + 1) % w>>}

\* C6 as stated: on any grid of sides in 2..1024 whose Alive cells are a 2x2 block,
\* a tick leaves the cells as they were.
C6_BlockStillAnySides ==
  (op.name = "tick" /\ InRange(width) /\ InRange(height) /\ IsBlock(old_cells, width, height)) =>
    (status = "ready" /\ cells = old_cells)

\* C6 amended: on any grid of sides in 3..1024 whose Alive cells are a 2x2 block, a
\* tick leaves the cells as they were (so does any number of ticks).
C6_BlockStill ==
  (op.name = "tick" /\ InRange(width) /\ InRange(height) /\ width >= 3 /\ height >= 3
     /\ IsBlock(old_cells, width, height)) =>
    (status = "ready" /\ cells = old_cells)

C6_Witness ==
  /\ op.name = "tick"
  /\ status = "ready"
  /\ width = 4
  /\ height = 3
  /\ IsBlock(old_cells, width, height)
  /\ IsBlock(cells, width, height)

Plus == <<Dead, Alive, Dead, Alive, Alive, Alive, Dead, Alive, Dead>>

AfterTickOfPlus ==
  op.name = "tick" /\ status = "ready" /\ width = 3 /\ height = 3 /\ old_cells = Plus

\* C7 as stated: on the 3x3 grid holding the plus, after one tick the four corners
\* are Alive.
C7_PlusCornersAlive ==
  AfterTickOfPlus =>
    /\ At(cells, 3, 0, 0) = Alive
    /\ At(cells, 3, 0, 2) = Alive
    /\ At(cells, 3, 2, 0) = Alive
    /\ At(cells, 3, 2, 2) = Alive

\* C7 amended: on the 3x3 grid holding the plus, after one tick the four corners, and
\* the five other cells, are Dead.
C7_PlusDies ==
  AfterTickOfPlus => \A i \in 1..9 : cells[i] = Dead

C7_Witness ==
  /\ AfterTickOfPlus
  /\ At(cells, 3, 0, 0) = Dead
  /\ At(cells, 3, 1, 1) = Dead

\* C8: render completes and returns height lines, each of width glyphs, one per cell,
\* and a line break.
C8_RenderShape ==
  op.name = "render" =>
    /\ status = "ready"
    /\ IsProduct(Len(cells), width, height)
    /\ Len(ret) = Len(cells) + height
    /\ \A i \in 0..(Len(cells) - 1) :
         ret[(i \div width) * (width + 1) + (i % width) + 1] = symbol(cells[i + 1])
    /\ \A r \in 1..height : ret[r * (width + 1)] = LineBreak

\* the counts of live_neighbor_count at every cell of the grid
CountAt(r, c) == live_neighbor_count(cells, width, height, r, c, overflow_checks)

\* C9 as stated: on a grid of sides at least 2 the live-neighbour count of a cell is
\* the number of Alive cells in the set of cells its eight wrapped offsets reach.
C9_CountIsSetSize ==
  (status = "ready" /\ width >= 2 /\ height >= 2 /\ IsProduct(Len(cells), width, height)) =>
    \A r \in 0..(height - 1), c \in 0..(width - 1) :
      \A n \in {CountAt(r, c)} :
        n.ok /\ n.val = NeighbourSetCount(cells, width, height, r, c)

\* C9 amended: on a grid of sides at least 2 the live-neighbour count of a cell is the
\* number of the eight wrapped offsets that reach an Alive cell, a cell that two
\* offsets reach counting twice; on sides at least 3 it is the number of Alive cells
\* in the set of cells reached.
C9_CountIsOffsetCount ==
  (status = "ready" /\ width >= 2 /\ height >= 2 /\ IsProduct(Len(cells), width, height)) =>
    \A r \in 0..(height - 1), c \in 0..(width - 1) :
      \A n \in {CountAt(r, c)} :
        /\ n.ok
        /\ n.val = OffsetCount(cells, width, height, r, c)
        /\ (width >= 3 /\ height >= 3) =>
             n.val = NeighbourSetCount(cells, width, height, r, c)

C9_Witness ==
  /\ status = "ready"
  /\ width = 4
  /\ height = 3
  /\ \A i \in 0..(Len(cells) - 1) : cells[i + 1] = Alive <=> i = 11
  /\ CountAt(0, 0) = Ok(1)
  /\ CountAt(0, 1) = Ok(0)
  /\ CountAt(2, 3) = Ok(0)

\* C10: tick has no error outcome: it completes in every state that new, tick,
\* set_cells, set_width and set_height reach.
C10_TickCompletes == op.name = "tick" => status = "ready"

====
